---- MODULE Spec2Model ----
(***************************************************************************)
(* A model of the kanime-api-v3 catalog service: the anime routes          *)
(* (push_anime, patch_anime and the poster export they run), the poster    *)
(* derivative pipeline of gen/anime.rs (export_poster, export_presenter)   *)
(* and the placeholder's accent-colour decoding.                           *)
(*                                                                         *)
(* Strings are sequences of one-character strings.  A file on disk is a    *)
(* record: NoFile, a Partial (created, not completely written) file, or    *)
(* the image that was encoded into it.                                     *)
(***************************************************************************)
EXTENDS Integers, Sequences, FiniteSets, TLC

\* ------------------------------------------------------------ bounds

\* Number of distinct source images a client can upload.
MaxImages == 2

\* ------------------------------------------------- program constants

ANIME_POSTER_MEDIUM_WIDTH == 310
ANIME_POSTER_MEDIUM_HEIGHT == 468
ANIME_PLACEHOLDER_COMPONENTS_X == 4
ANIME_PLACEHOLDER_COMPONENTS_Y == 7
\* blurhash::encode(4, 6, ..) in routes/anime.rs
ROUTE_PLACEHOLDER_COMPONENTS_X == 4
ROUTE_PLACEHOLDER_COMPONENTS_Y == 6
\* random_string::generate(20, KEY_ALPHABET)
KEY_LENGTH == 20
\* palette[2]: the rank (counted from 0) of the accent swatch
ACCENT_SWATCH == 2

ACCENT_COLOR == <<241, 143, 243>>

\* The base83 alphabet, in digit order.
DIGIT ==
    << "0", "1", "2", "3", "4", "5", "6", "7", "8", "9",
       "A", "B", "C", "D", "E", "F", "G", "H", "I", "J", "K", "L", "M",
       "N", "O", "P", "Q", "R", "S", "T", "U", "V", "W", "X", "Y", "Z",
       "a", "b", "c", "d", "e", "f", "g", "h", "i", "j", "k", "l", "m",
       "n", "o", "p", "q", "r", "s", "t", "u", "v", "w", "x", "y", "z",
       "#", "$", "%", "*", "+", ",", "-", ".", ":", ";", "=", "?", "@",
       "[", "]", "^", "_", "{", "|", "}", "~" >>

FULLRES == "fullres"
MEDIUM == "310x468"
PRESENTER == "pre"
Folders == {FULLRES, MEDIUM, PRESENTER}

\* --------------------------------------------------------- options

None == [tag |-> "none"]
Some(x) == [tag |-> "some", val |-> x]
IsSome(o) == o.tag = "some"

\* ----------------------------------------------------------- base83

Pow83(n) == IF n = 0 THEN 1
            ELSE IF n = 1 THEN 83
            ELSE IF n = 2 THEN 83 * 83
            ELSE IF n = 3 THEN 83 * 83 * 83
            ELSE 83 * 83 * 83 * 83

\* base83::encode_fixed_to(value, length, ..): `length` digits, most
\* significant first.
encode_fixed(value, length) ==
    [i \in 1..length |-> DIGIT[((value \div Pow83(length - i)) % 83) + 1]]

IsDigit(c) == \E i \in 1..Len(DIGIT) : DIGIT[i] = c
DigitValue(c) == (CHOOSE i \in 1..Len(DIGIT) : DIGIT[i] = c) - 1

RECURSIVE DecodeDigits(_)
DecodeDigits(s) ==
    IF s = <<>> THEN 0
    ELSE DecodeDigits(SubSeq(s, 1, Len(s) - 1)) * 83 + DigitValue(s[Len(s)])

\* base83::decode(s): Err on a character outside the alphabet.
decode(s) ==
    IF \A i \in 1..Len(s) : IsDigit(s[i])
    THEN Some(DecodeDigits(s))
    ELSE None

\* decode83(s, start, end) of routes/anime.rs: the characters are skipped
\* and taken, and a character outside DIGIT makes expect() panic.
decode83(s, start, end) ==
    LET lo == IF start < Len(s) THEN start + 1 ELSE Len(s) + 1
        hi == IF end < Len(s) THEN end ELSE Len(s)
        sl == SubSeq(s, lo, hi)
    IN IF \A i \in 1..Len(sl) : IsDigit(sl[i])
       THEN [tag |-> "ok", val |-> DecodeDigits(sl)]
       ELSE [tag |-> "panic"]

\* Rgb::new((c >> 16) as u8, (c >> 8) as u8, c as u8)
RgbOf(c) == << (c \div 65536) % 256, (c \div 256) % 256, c % 256 >>

\* The packing with the red byte shifted by 8 bits only.
PackRgb_Shift8(rgb) == rgb[1] * 256 + rgb[2] * 256 + rgb[3]

\* ((r as u32) << 16) | ((g as u32) << 8) | (b as u32)
PackRgb(rgb) == rgb[1] * 65536 + rgb[2] * 256 + rgb[3]

\* ----------------------------------------------------------- images

\* An upload is the bytes of source image `src` in format `fmt` ("bad":
\* bytes that are no image at all).
Uploads ==
    {[src |-> i, fmt |-> "webp"] : i \in 1..MaxImages}
        \cup {[src |-> 1, fmt |-> "png"], [src |-> 1, fmt |-> "bad"]}

\* The poster parts a client sends: an upload and the content type it
\* declares for it, true or not.
Posters ==
    {[ctype |-> "image/webp", upload |-> u] : u \in Uploads \ {[src |-> 1, fmt |-> "png"]}}
        \cup {[ctype |-> "image/png", upload |-> [src |-> 1, fmt |-> f]] : f \in {"png", "webp"}}
        \cup {[ctype |-> "image/jpeg", upload |-> [src |-> 1, fmt |-> "webp"]]}

SrcWidth(src) == 600 * src
SrcHeight(src) == 900 * src
\* The average colour of source image src (a 24-bit value).
AvgColour(src) == (src * 4473924) % 16777216
\* The number of distinct colours of source image src.
NColours(src) == 2 * src - 1
\* The k-th most prominent colour of source image src.
SwatchColour(src, k) == << (40 * k + src) % 256, (80 * k) % 256, (50 * src) % 256 >>

NoImage == [kind |-> "none"]
NoFile == [kind |-> "none"]
Partial == [kind |-> "partial"]

\* Image::from_reader(format, bytes): the decoded pixel buffer, or an error
\* when the bytes are not an image of that format.
from_reader(format, upload) ==
    IF upload.fmt = format
    THEN [kind |-> "image", src |-> upload.src,
          w |-> SrcWidth(upload.src), h |-> SrcHeight(upload.src)]
    ELSE NoImage

\* image.resize(w, h, ..): in place, to exactly w x h.
resize(image, w, h) == [image EXCEPT !.w = w, !.h = h]

\* What encoding `image` into a file leaves in it: the picture at the
\* buffer's current size, lossless or not.
Encoded(image, lossless) ==
    [kind |-> "file", src |-> image.src, w |-> image.w, h |-> image.h,
     lossless |-> lossless]

\* blurhash of an image over an nx x ny grid: size flag, quantised maximum,
\* the average colour in 4 digits, then 2 digits per remaining component.
Blurhash(nx, ny, image) ==
    encode_fixed((nx - 1) + (ny - 1) * 9, 1)
        \o encode_fixed(image.src % 83, 1)
        \o encode_fixed(AvgColour(image.src), 4)
        \o [i \in 1..(2 * (nx * ny - 1)) |->
               encode_fixed((image.src * 421) % 6889, 2)[((i - 1) % 2) + 1]]

\* color_thief::get_palette(pixels, Rgb, 10, 5): an error, or a palette that
\* holds at most 5 colours and no more than the image has.
PALETTE_MAX_COLORS == 5
Min(a, b) == IF a < b THEN a ELSE b
get_palette(image) ==
    {[tag |-> "err"]}
        \cup {[tag |-> "ok",
               val |-> [k \in 1..n |-> SwatchColour(image.src, k)]] :
              n \in 1..Min(NColours(image.src), PALETTE_MAX_COLORS)}

\* ------------------------------------------------ get_dominant_color

\* The index of the first "/" of s, or 0.
SlashAt(s) ==
    IF \E i \in 1..Len(s) : s[i] = "/"
    THEN CHOOSE i \in 1..Len(s) : s[i] = "/" /\ \A j \in 1..(i - 1) : s[j] # "/"
    ELSE 0

\* get_dominant_color without the branch for a placeholder that has no "/".
get_dominant_color_SuffixOnly(blurhash) ==
    LET at == SlashAt(blurhash)
        right == SubSeq(blurhash, at + 1, Len(blurhash))
        color == IF at > 0
                 THEN (IF Len(right) < 4 THEN [tag |-> "panic"]
                       ELSE decode(SubSeq(right, 1, 4)))
                 ELSE None
    IN IF color.tag = "some" THEN Some(RgbOf(color.val)) ELSE color

\* get_dominant_color reading a placeholder without "/" from its start.
get_dominant_color_FromStart(blurhash) ==
    LET at == SlashAt(blurhash)
        right == SubSeq(blurhash, at + 1, Len(blurhash))
        color == IF at > 0
                 THEN (IF Len(right) < 4 THEN [tag |-> "panic"]
                       ELSE decode(SubSeq(right, 1, 4)))
                 ELSE (IF Len(blurhash) < 4 THEN [tag |-> "panic"]
                       ELSE decode(SubSeq(blurhash, 1, 4)))
    IN IF color.tag = "some" THEN Some(RgbOf(color.val)) ELSE color

\* get_dominant_color(blurhash): Some(rgb), None, or a panic when the slice
\* is out of range.
get_dominant_color(blurhash) ==
    LET at == SlashAt(blurhash)
        right == SubSeq(blurhash, at + 1, Len(blurhash))
        color == IF at > 0
                 THEN (IF Len(right) < 4 THEN [tag |-> "panic"]
                       ELSE decode(SubSeq(right, 1, 4)))
                 ELSE (IF Len(blurhash) < 6 THEN [tag |-> "panic"]
                       ELSE decode(SubSeq(blurhash, 3, 6)))
    IN IF color.tag = "some" THEN Some(RgbOf(color.val)) ELSE color

\* The accent colour export_presenter draws the counts in, for a poster's
\* placeholder (an option); "panic" when get_dominant_color aborts.
avg_color(placeholder) ==
    IF IsSome(placeholder)
    THEN LET c == get_dominant_color(placeholder.val)
         IN IF c.tag = "panic" THEN c
            ELSE IF c.tag = "some" THEN [tag |-> "ok", val |-> c.val]
            ELSE [tag |-> "ok", val |-> ACCENT_COLOR]
    ELSE [tag |-> "ok", val |-> ACCENT_COLOR]

\* ------------------------------------------------------------ state

Ids == {"a1"}
\* What a request path can name: a stored id, a well-formed id of no
\* document, and a string that is no ObjectId.
PathIds == Ids \cup {"a0", "bad"}
Titles == {"t1", "t2"}
\* The titles a created document starts with, and those a patch sets.
PayloadTitles == {"t1"}
PatchTitles == {"t2"}
Procs == {"w1"}

\* Keys random_string::generate(20, KEY_ALPHABET) can return, and the key of
\* get_anime() of types.rs, which a client sends as its payload's poster key.
GeneratedKeys == {"AAAAAAAAAAAAAAAAAAAA", "bbbbbbbbbbbbbbbbbbbb"}
SampleKey == "d07f449fdeb9e559e19095db31da14ff"
\* get_anime() of types.rs: "TFOBAk}sIT9r?ZI=u,$zKK#lNYx["
SamplePlaceholder ==
    << "T", "F", "O", "B", "A", "k", "}", "s", "I", "T", "9", "r", "?", "Z",
       "I", "=", "u", ",", "$", "z", "K", "K", "#", "l", "N", "Y", "x", "[" >>
PayloadKeys == {SampleKey}
Keys == GeneratedKeys \cup PayloadKeys

NoDoc == [tag |-> "none"]

VARIABLES
    db,      \* the animes collection: Ids -> document or NoDoc
    files,   \* the cache folder: <<folder, key>> -> file
    keylog,  \* the "cache key: {key}" log line of each created document
    req      \* each worker's request: position, inputs and locals

vars == <<db, files, keylog, req>>

Idle ==
    [pc |-> "idle", kind |-> "none", id |-> "", titles |-> None,
     poster |-> None, key |-> "", title |-> "", image |-> NoImage,
     steps |-> <<>>, placeholder |-> None, accent |-> None, err |-> "",
     set |-> None, resp |-> ""]

Lookup(id) == IF id \in Ids THEN db[id] ELSE NoDoc

Init ==
    /\ db = [i \in Ids |-> NoDoc]
    /\ files = [f \in Folders \X Keys |-> NoFile]
    /\ keylog = [i \in Ids |-> None]
    /\ req = [p \in Procs |-> Idle]

Free(p) == req[p].pc \in {"idle", "done"}

\* A CachedImage that is given a new key each time it is built.
with_placeholder_NewKey(key, placeholder) ==
    [key |-> "AAAAAAAAAAAAAAAAAAAA", placeholder |-> Some(placeholder)]

\* CachedImage::with_placeholder(key, placeholder)
with_placeholder(key, placeholder) == [key |-> key, placeholder |-> Some(placeholder)]

\* ------------------------------------------------------- push_anime

\* The placeholder of a payload's poster: none, or a string.
PayloadPlaceholders == {None, Some(SamplePlaceholder)}

\* The document insert_one stores for a payload when `key` was generated.
InsertedDoc(payload, key) ==
    [tag |-> "doc", title |-> payload.title, key |-> payload.key,
     placeholder |-> payload.placeholder]

push_anime ==
    \E id \in {i \in Ids : db[i] = NoDoc}, title \in PayloadTitles,
       pkey \in PayloadKeys, ph \in PayloadPlaceholders, key \in GeneratedKeys,
       inserted \in BOOLEAN :
        /\ IF inserted
           THEN /\ db' = [db EXCEPT ![id] =
                            InsertedDoc([title |-> title, key |-> pkey,
                                         placeholder |-> ph], key)]
                /\ keylog' = [keylog EXCEPT ![id] = Some(key)]
           ELSE UNCHANGED <<db, keylog>>
        /\ UNCHANGED <<files, req>>

\* ------------------------------------------------------ patch_anime

\* AnimeSeriesPatch::is_empty, on the worker's patch.
is_empty(r) == ~IsSome(r.titles) /\ ~IsSome(r.set)

Respond(r, resp) == [r EXCEPT !.pc = "done", !.resp = resp]

\* The match on export_poster's Err in patch_anime.
ExportFailed(r, stage) ==
    LET f == [r EXCEPT !.err = stage, !.placeholder = None]
    IN IF is_empty(f) THEN Respond(f, "internal_error")
       ELSE [f EXCEPT !.pc = "apply"]

\* The multipart forms sent to PATCH /s/anime/{id}.
PatchInputs ==
    {[id |-> "bad", titles |-> Some(t), poster |-> None] : t \in PatchTitles}
        \cup {[id |-> "a0", titles |-> Some(t), poster |-> None] : t \in PatchTitles}
        \cup {[id |-> "a0", titles |-> None, poster |-> Some(q)] :
                  q \in {x \in Posters : x.ctype = "image/webp" /\ x.upload.src = 1}}
        \cup [id : Ids,
              titles : {None} \cup {Some(t) : t \in PatchTitles},
              poster : {None} \cup {Some(q) : q \in Posters}]

\* patch_anime letting every image type through.
Accepted_AnyImage(ctype) == ctype \in {"image/webp", "image/png", "image/jpeg"}

\* The content types patch_anime lets through to export_poster.
Accepted(ctype) == ctype \in {"image/webp", "image/png"}

\* patch_anime up to the call of export_poster: the id, the empty patch,
\* the content type, find_anime.
pa_begin(p) ==
    /\ Free(p)
    /\ \E in \in PatchInputs, found \in BOOLEAN :
        LET r == [Idle EXCEPT !.kind = "patch", !.id = in.id,
                              !.titles = in.titles, !.poster = in.poster]
            anime == Lookup(in.id)
        IN req' = [req EXCEPT ![p] =
                IF in.id = "bad" THEN Respond(r, "bad_request")
                ELSE IF ~IsSome(in.titles) /\ ~IsSome(in.poster)
                     THEN Respond(r, "bad_request")
                ELSE IF IsSome(in.poster)
                     THEN IF Accepted(in.poster.val.ctype)
                          THEN IF found /\ anime # NoDoc
                               THEN [r EXCEPT !.pc = "ep_decode",
                                              !.key = anime.key,
                                              !.title = anime.title]
                               ELSE Respond(r, "bad_request")
                          ELSE Respond(r, "bad_request")
                ELSE [r EXCEPT !.pc = "apply"]]
    /\ UNCHANGED <<db, files, keylog>>

\* -------------------------------- export_poster of routes/anime.rs

\* File::create(path) followed by the encoder's writes: done, not even
\* created, or created and left incomplete.
WriteOutcomes == {"ok", "create_failed", "write_failed"}

\* WriteFile that keeps a file that is already there.
WriteFile_KeepExisting(fs, f, content, outcome) ==
    IF outcome = "ok" THEN (IF fs[f] = NoFile THEN [fs EXCEPT ![f] = content] ELSE fs)
    ELSE IF outcome = "write_failed" THEN [fs EXCEPT ![f] = Partial]
    ELSE fs

WriteFile(fs, f, content, outcome) ==
    IF outcome = "ok" THEN [fs EXCEPT ![f] = content]
    ELSE IF outcome = "write_failed" THEN [fs EXCEPT ![f] = Partial]
    ELSE fs

\* The order of the statements of export_poster (routes/anime.rs).
PosterSteps == <<"decode", "fullres", "resize", "thumb", "hash", "fonts", "presenter">>

\* The step that follows `step` in the sequence `order`.
After(order, step) ==
    LET i == CHOOSE j \in 1..Len(order) : order[j] = step
    IN IF i < Len(order) THEN order[i + 1] ELSE "return"

Did(r, order, step, prefix) ==
    [r EXCEPT !.steps = Append(@, step),
              !.pc = prefix \o After(order, step)]

At(p, kind, pc) == req[p].kind = kind /\ req[p].pc = pc

\* The format export_poster hands to Image::from_reader for an upload
\* declared as `ctype`.
DecodeFormat(ctype) == "webp"

ep_decode(p) ==
    /\ At(p, "patch", "ep_decode")
    /\ \E opened \in BOOLEAN :
        LET r == req[p]
            image == from_reader(DecodeFormat(r.poster.val.ctype), r.poster.val.upload)
        IN req' = [req EXCEPT ![p] =
                IF ~opened THEN ExportFailed(r, "open")
                ELSE IF image = NoImage THEN ExportFailed(r, "decode")
                ELSE Did([r EXCEPT !.image = image], PosterSteps, "decode", "ep_")]
    /\ UNCHANGED <<db, files, keylog>>

\* image.save(ImageFormat::WebP, folder/fullres/{key}.webp)
ep_fullres(p) ==
    /\ At(p, "patch", "ep_fullres")
    /\ \E o \in WriteOutcomes :
        LET r == req[p]
        IN /\ files' = WriteFile(files, <<FULLRES, r.key>>,
                                 Encoded(r.image, "default"), o)
           /\ req' = [req EXCEPT ![p] =
                IF o = "ok" THEN Did(r, PosterSteps, "fullres", "ep_")
                ELSE ExportFailed(r, "fullres")]
    /\ UNCHANGED <<db, keylog>>

ep_resize(p) ==
    /\ At(p, "patch", "ep_resize")
    /\ req' = [req EXCEPT ![p] =
            Did([req[p] EXCEPT !.image =
                     resize(@, ANIME_POSTER_MEDIUM_WIDTH, ANIME_POSTER_MEDIUM_HEIGHT)],
                PosterSteps, "resize", "ep_")]
    /\ UNCHANGED <<db, files, keylog>>

\* ep_thumb with the result of the save ignored.
ep_thumb_ErrorIgnored(p) ==
    /\ At(p, "patch", "ep_thumb")
    /\ \E o \in WriteOutcomes :
        LET r == req[p]
        IN /\ files' = WriteFile(files, <<MEDIUM, r.key>>,
                                 Encoded(r.image, "default"), o)
           /\ req' = [req EXCEPT ![p] = Did(r, PosterSteps, "thumb", "ep_")]
    /\ UNCHANGED <<db, keylog>>

\* image.save(ImageFormat::WebP, folder/310x468/{key}.webp)
ep_thumb(p) ==
    /\ At(p, "patch", "ep_thumb")
    /\ \E o \in WriteOutcomes :
        LET r == req[p]
        IN /\ files' = WriteFile(files, <<MEDIUM, r.key>>,
                                 Encoded(r.image, "default"), o)
           /\ req' = [req EXCEPT ![p] =
                IF o = "ok" THEN Did(r, PosterSteps, "thumb", "ep_")
                ELSE ExportFailed(r, "thumb")]
    /\ UNCHANGED <<db, keylog>>

\* blurhash::encode(4, 6, ..) and the average colour decode83 reads from it.
ep_hash(p) ==
    /\ At(p, "patch", "ep_hash")
    /\ LET r == req[p]
           placeholder == Blurhash(ROUTE_PLACEHOLDER_COMPONENTS_X,
                                   ROUTE_PLACEHOLDER_COMPONENTS_Y, r.image)
           avg == decode83(placeholder, 2, 6)
       IN req' = [req EXCEPT ![p] =
               Did([r EXCEPT !.placeholder = Some(placeholder),
                             !.accent = Some(RgbOf(avg.val))],
                   PosterSteps, "hash", "ep_")]
    /\ UNCHANGED <<db, files, keylog>>

\* Font::open of the two Poppins fonts.
ep_fonts(p) ==
    /\ At(p, "patch", "ep_fonts")
    /\ \E loaded \in BOOLEAN :
        req' = [req EXCEPT ![p] =
            IF loaded THEN Did(req[p], PosterSteps, "fonts", "ep_")
            ELSE ExportFailed(req[p], "font")]
    /\ UNCHANGED <<db, files, keylog>>

\* The presenter canvas export_poster composes: the resized poster, the
\* first title, and the author in the average colour.
RoutePresenter(r) ==
    [kind |-> "presenter", src |-> r.image.src, title |-> r.title,
     accent |-> r.accent.val]

\* presenter.save(..) and the return to patch_anime, which sets the poster
\* of the patch.
ep_presenter(p) ==
    /\ At(p, "patch", "ep_presenter")
    /\ \E o \in WriteOutcomes :
        LET r == req[p]
        IN /\ files' = WriteFile(files, <<PRESENTER, r.key>>, RoutePresenter(r), o)
           /\ req' = [req EXCEPT ![p] =
                IF o = "ok"
                THEN [Did(r, PosterSteps, "presenter", "ep_") EXCEPT
                          !.pc = "apply",
                          !.placeholder = None,
                          !.set = Some(with_placeholder(r.key, r.placeholder.val))]
                ELSE ExportFailed(r, "presenter")]
    /\ UNCHANGED <<db, keylog>>

\* ------------------------------------------------ apply_anime_patch

\* The document after update_one with {"$set": patch.seal()}.
Patched(doc, r) ==
    [doc EXCEPT
        !.title = IF IsSome(r.titles) THEN r.titles.val ELSE @,
        !.key = IF IsSome(r.set) THEN r.set.val.key ELSE @,
        !.placeholder = IF IsSome(r.set) THEN r.set.val.placeholder ELSE @]

\* apply_anime_patch and the response patch_anime builds from it.
pa_apply(p) ==
    /\ At(p, "patch", "apply")
    /\ \E o \in {"db_failed", "index_failed", "ok"} :
        LET r == req[p]
        IN IF o = "db_failed"
           THEN /\ req' = [req EXCEPT ![p] = Respond(r, "db_error")]
                /\ UNCHANGED db
           ELSE IF Lookup(r.id) = NoDoc
           THEN /\ req' = [req EXCEPT ![p] = Respond(r, "not_found")]
                /\ UNCHANGED db
           ELSE /\ db' = [db EXCEPT ![r.id] = Patched(@, r)]
                /\ req' = [req EXCEPT ![p] =
                        Respond(r, IF o = "ok" THEN "no_content" ELSE "db_error")]
    /\ UNCHANGED <<files, keylog>>

\* ---------------------------------- export_poster of gen/anime.rs

\* The keys and uploads export_poster is called with.
JobKeys == {SampleKey}

\* export_poster with the resize moved before the full-resolution write.
GenSteps_ResizeFirst == <<"decode", "resize", "fullres", "thumb", "hash">>

\* The order of the statements of export_poster (gen/anime.rs).
GenSteps == <<"decode", "fullres", "resize", "thumb", "hash">>

Return(r, resp) == [r EXCEPT !.pc = "done", !.resp = resp]
Failed(r, stage) == [r EXCEPT !.pc = "done", !.resp = "err", !.err = stage]

gp_begin(p) ==
    /\ Free(p)
    /\ \E key \in JobKeys, u \in Uploads :
        req' = [req EXCEPT ![p] =
            [Idle EXCEPT !.kind = "gen", !.pc = "gp_decode", !.key = key,
                         !.poster = Some([ctype |-> "", upload |-> u])]]
    /\ UNCHANGED <<db, files, keylog>>

\* File::open(from)? and Image::from_reader(ImageFormat::WebP, ..)
gp_decode(p) ==
    /\ At(p, "gen", "gp_decode")
    /\ \E opened \in BOOLEAN :
        LET r == req[p]
            image == from_reader("webp", r.poster.val.upload)
        IN req' = [req EXCEPT ![p] =
                IF ~opened THEN Failed(r, "open")
                ELSE IF image = NoImage THEN Failed(r, "decode")
                ELSE Did([r EXCEPT !.image = image], GenSteps, "decode", "gp_")]
    /\ UNCHANGED <<db, files, keylog>>

\* gp_fullres with the result of the encode ignored.
gp_fullres_ErrorIgnored(p) ==
    /\ At(p, "gen", "gp_fullres")
    /\ \E o \in WriteOutcomes :
        LET r == req[p]
        IN /\ files' = WriteFile(files, <<FULLRES, r.key>>,
                                 Encoded(r.image, "lossless"), o)
           /\ req' = [req EXCEPT ![p] = Did(r, GenSteps, "fullres", "gp_")]
    /\ UNCHANGED <<db, keylog>>

\* The lossless encode into fullres/{cache_key}.webp
gp_fullres(p) ==
    /\ At(p, "gen", "gp_fullres")
    /\ \E o \in WriteOutcomes :
        LET r == req[p]
        IN /\ files' = WriteFile(files, <<FULLRES, r.key>>,
                                 Encoded(r.image, "lossless"), o)
           /\ req' = [req EXCEPT ![p] =
                IF o = "ok" THEN Did(r, GenSteps, "fullres", "gp_")
                ELSE Failed(r, "fullres")]
    /\ UNCHANGED <<db, keylog>>

gp_resize(p) ==
    /\ At(p, "gen", "gp_resize")
    /\ req' = [req EXCEPT ![p] =
            Did([req[p] EXCEPT !.image =
                     resize(@, ANIME_POSTER_MEDIUM_WIDTH, ANIME_POSTER_MEDIUM_HEIGHT)],
                GenSteps, "resize", "gp_")]
    /\ UNCHANGED <<db, files, keylog>>

\* The quality-80 encode into 310x468/{cache_key}.webp
gp_thumb(p) ==
    /\ At(p, "gen", "gp_thumb")
    /\ \E o \in WriteOutcomes :
        LET r == req[p]
        IN /\ files' = WriteFile(files, <<MEDIUM, r.key>>,
                                 Encoded(r.image, "q80"), o)
           /\ req' = [req EXCEPT ![p] =
                IF o = "ok" THEN Did(r, GenSteps, "thumb", "gp_")
                ELSE Failed(r, "thumb")]
    /\ UNCHANGED <<db, keylog>>

\* The placeholder for a palette result: the body, and "/" with the packed
\* swatch palette[2] when the palette is Ok; "panic" when it has no index 2.
WithAccent(body, palette) ==
    IF palette.tag = "ok"
    THEN IF Len(palette.val) <= ACCENT_SWATCH
         THEN [tag |-> "panic"]
         ELSE Some(body \o <<"/">>
                        \o encode_fixed(PackRgb(palette.val[ACCENT_SWATCH + 1]), 4))
    ELSE Some(body)

\* compute_dct_iter(..).into_blurhash(), get_palette and the return.
gp_hash(p) ==
    /\ At(p, "gen", "gp_hash")
    /\ \E palette \in get_palette(req[p].image) :
        LET r == req[p]
            body == Blurhash(ANIME_PLACEHOLDER_COMPONENTS_X,
                             ANIME_PLACEHOLDER_COMPONENTS_Y, r.image)
            placeholder == WithAccent(body, palette)
        IN req' = [req EXCEPT ![p] =
                IF placeholder.tag = "panic"
                THEN [Return(r, "panic") EXCEPT !.err = "palette"]
                ELSE [Return(Did(r, GenSteps, "hash", "gp_"), "ok") EXCEPT
                          !.set = Some(with_placeholder(r.key, placeholder.val))]]
    /\ UNCHANGED <<db, files, keylog>>

\* ------------------------------------------------- export_presenter

\* The canvas export_presenter composes for a recipient.
GenPresenter(r) ==
    [kind |-> "presenter", src |-> r.image.src, title |-> r.title,
     accent |-> r.accent.val]

\* export_presenter up to the template: the file name and avg_color.
xp_begin(p) ==
    /\ Free(p)
    /\ \E id \in {i \in Ids : db[i] # NoDoc} :
        LET recipient == db[id]
            r == [Idle EXCEPT !.kind = "pre", !.id = id, !.key = recipient.key,
                              !.title = recipient.title,
                              !.placeholder = recipient.placeholder]
            avg == avg_color(recipient.placeholder)
        IN req' = [req EXCEPT ![p] =
                IF avg.tag = "panic" THEN [Return(r, "panic") EXCEPT !.err = "accent"]
                ELSE [r EXCEPT !.pc = "xp_read", !.accent = Some(avg.val)]]
    /\ UNCHANGED <<db, files, keylog>>

\* The template, the poster read back from fullres/{key}.webp, the fonts
\* and the drawing.
xp_read(p) ==
    /\ At(p, "pre", "xp_read")
    /\ \E o \in {"ok", "template", "font"} :
        LET r == req[p]
            poster == files[<<FULLRES, r.key>>]
        IN req' = [req EXCEPT ![p] =
                IF o = "template" THEN Failed(r, "template")
                ELSE IF poster.kind # "file" THEN Failed(r, "poster")
                ELSE IF o = "font" THEN Failed(r, "font")
                ELSE [r EXCEPT !.pc = "xp_write",
                               !.image = [kind |-> "image", src |-> poster.src,
                                          w |-> poster.w, h |-> poster.h]]]
    /\ UNCHANGED <<db, files, keylog>>

\* The encode into pre/{key}.webp
xp_write(p) ==
    /\ At(p, "pre", "xp_write")
    /\ \E o \in WriteOutcomes :
        LET r == req[p]
        IN /\ files' = WriteFile(files, <<PRESENTER, r.key>>, GenPresenter(r), o)
           /\ req' = [req EXCEPT ![p] =
                IF o = "ok" THEN Return(r, "ok") ELSE Failed(r, "presenter")]
    /\ UNCHANGED <<db, keylog>>

\* The entities export_presenter is called for.
RecipientPlaceholders ==
    {None,
     Some(SamplePlaceholder),
     Some(Blurhash(ANIME_PLACEHOLDER_COMPONENTS_X, ANIME_PLACEHOLDER_COMPONENTS_Y,
                   [src |-> 1])),
     Some(Blurhash(ANIME_PLACEHOLDER_COMPONENTS_X, ANIME_PLACEHOLDER_COMPONENTS_Y,
                   [src |-> 1])
              \o <<"/">> \o encode_fixed(PackRgb(SwatchColour(1, 3)), 4))}

InitGen ==
    /\ db \in [Ids -> {[tag |-> "doc", title |-> t, key |-> k, placeholder |-> ph] :
                          t \in PayloadTitles, k \in JobKeys,
                          ph \in RecipientPlaceholders}]
    /\ files = [f \in Folders \X Keys |-> NoFile]
    /\ keylog = [i \in Ids |-> None]
    /\ req = [p \in Procs |-> Idle]

NextGen ==
    \E p \in Procs :
        \/ gp_begin(p)
        \/ gp_decode(p)
        \/ gp_fullres(p)
        \/ gp_resize(p)
        \/ gp_thumb(p)
        \/ gp_hash(p)
        \/ xp_begin(p)
        \/ xp_read(p)
        \/ xp_write(p)

SpecGen == InitGen /\ [][NextGen]_vars

\* ------------------------ two pipelines at work on the cache folder

\* The workers of the server, and the keys and uploads of their runs.  A run
\* is export_poster(key, from) followed, when it returned Ok, by
\* export_presenter for the recipient that has the returned CachedImage.
Workers == {"w1", "w2"}
ParKeys == {SampleKey, "AAAAAAAAAAAAAAAAAAAA"}
ParUploads == {u \in Uploads : u.fmt = "webp"}

\* output with one file name for every key.
output_SharedName(folder, key) == <<folder, SampleKey>>

\* cache_folder.join(folder).join(format!("{key}.webp"))
output(folder, key) == <<folder, key>>

\* The length of a file: longer for a picture with more in it.
FileLen(c) ==
    IF c.kind \in {"none", "partial"} THEN 0
    ELSE IF "tail" \in DOMAIN c THEN c.tail
    ELSE c.src

\* A write of `content` from offset 0 through a descriptor of its own to a
\* file that holds `old`: the bytes of a longer `old` stay behind it.
Overlay(content, old) ==
    IF FileLen(old) > FileLen(content)
    THEN content @@ [tail |-> FileLen(old)]
    ELSE content

\* File::create(output): the file is there and empty.
CreateFile(fs, f) == [fs EXCEPT ![f] = Partial]

\* encode(.., &mut BufWriter::new(file)): the encoded image is written.
EncodeInto(fs, f, content) == [fs EXCEPT ![f] = Overlay(content, @)]

rg_begin(p) ==
    /\ req[p].pc = "idle"
    /\ \E key \in ParKeys, u \in ParUploads :
        req' = [req EXCEPT ![p] =
            [Idle EXCEPT !.kind = "gen", !.pc = "gp_decode", !.key = key,
                         !.poster = Some([ctype |-> "", upload |-> u])]]
    /\ UNCHANGED <<db, files, keylog>>

\* File::create of fullres/{cache_key}.webp
gp_fullres_create(p) ==
    /\ At(p, "gen", "gp_fullres")
    /\ files' = CreateFile(files, output(FULLRES, req[p].key))
    /\ req' = [req EXCEPT ![p].pc = "gp_fullres_encode"]
    /\ UNCHANGED <<db, keylog>>

\* gp_fullres_encode writing only to a file nobody wrote to meanwhile.
gp_fullres_encode_FirstWins(p) ==
    /\ At(p, "gen", "gp_fullres_encode")
    /\ LET f == output(FULLRES, req[p].key)
       IN files' = IF files[f] = Partial
                   THEN EncodeInto(files, f, Encoded(req[p].image, "lossless"))
                   ELSE files
    /\ req' = [req EXCEPT ![p] = Did(req[p], GenSteps, "fullres", "gp_")]
    /\ UNCHANGED <<db, keylog>>

\* The lossless encode into the created file.
gp_fullres_encode(p) ==
    /\ At(p, "gen", "gp_fullres_encode")
    /\ files' = EncodeInto(files, output(FULLRES, req[p].key),
                           Encoded(req[p].image, "lossless"))
    /\ req' = [req EXCEPT ![p] = Did(req[p], GenSteps, "fullres", "gp_")]
    /\ UNCHANGED <<db, keylog>>

\* File::create of 310x468/{cache_key}.webp
gp_thumb_create(p) ==
    /\ At(p, "gen", "gp_thumb")
    /\ files' = CreateFile(files, output(MEDIUM, req[p].key))
    /\ req' = [req EXCEPT ![p].pc = "gp_thumb_encode"]
    /\ UNCHANGED <<db, keylog>>

\* The quality-80 encode into the created file.
gp_thumb_encode(p) ==
    /\ At(p, "gen", "gp_thumb_encode")
    /\ files' = EncodeInto(files, output(MEDIUM, req[p].key),
                           Encoded(req[p].image, "q80"))
    /\ req' = [req EXCEPT ![p] = Did(req[p], GenSteps, "thumb", "gp_")]
    /\ UNCHANGED <<db, keylog>>

\* export_presenter is called for the recipient whose poster is the
\* CachedImage export_poster returned: the file name and avg_color.
rg_compose(p) ==
    /\ At(p, "gen", "done") /\ req[p].resp = "ok"
    /\ LET r == req[p]
           recipient == [key |-> r.set.val.key, title |-> "t1",
                         placeholder |-> r.set.val.placeholder]
           n == [Idle EXCEPT !.kind = "pre", !.key = recipient.key,
                             !.title = recipient.title, !.poster = r.poster,
                             !.placeholder = recipient.placeholder]
           avg == avg_color(recipient.placeholder)
       IN req' = [req EXCEPT ![p] =
               IF avg.tag = "panic" THEN [Return(n, "panic") EXCEPT !.err = "accent"]
               ELSE [n EXCEPT !.pc = "xp_read", !.accent = Some(avg.val)]]
    /\ UNCHANGED <<db, files, keylog>>

\* File::create of pre/{key}.webp
xp_create(p) ==
    /\ At(p, "pre", "xp_write")
    /\ files' = CreateFile(files, output(PRESENTER, req[p].key))
    /\ req' = [req EXCEPT ![p].pc = "xp_encode"]
    /\ UNCHANGED <<db, keylog>>

\* The lossless encode of the presenter into the created file.
xp_encode(p) ==
    /\ At(p, "pre", "xp_encode")
    /\ files' = EncodeInto(files, output(PRESENTER, req[p].key), GenPresenter(req[p]))
    /\ req' = [req EXCEPT ![p] = Return(req[p], "ok")]
    /\ UNCHANGED <<db, keylog>>

InitPar ==
    /\ db = [i \in Ids |-> NoDoc]
    /\ files = [f \in Folders \X Keys |-> NoFile]
    /\ keylog = [i \in Ids |-> None]
    /\ req = [p \in Workers |-> Idle]

NextPar ==
    \E p \in Workers :
        \/ rg_begin(p)
        \/ gp_decode(p)
        \/ gp_fullres_create(p)
        \/ gp_fullres_encode(p)
        \/ gp_resize(p)
        \/ gp_thumb_create(p)
        \/ gp_thumb_encode(p)
        \/ gp_hash(p)
        \/ rg_compose(p)
        \/ xp_read(p)
        \/ xp_create(p)
        \/ xp_encode(p)

SpecPar == InitPar /\ [][NextPar]_vars

\* --------------------- the accent colour, encoded and decoded again

\* The colours of a palette's swatches, the bodies the accent is appended
\* to, and placeholders as they are found stored on entities.
Colours == {<<r, g, b>> : r \in {0, 1, 128, 255}, g \in {0, 1, 128, 255}, b \in {0, 1, 128, 255}}
Bodies == {<<>>, Blurhash(ANIME_PLACEHOLDER_COMPONENTS_X, ANIME_PLACEHOLDER_COMPONENTS_Y, [src |-> 1])}
StoredPlaceholders ==
    {SamplePlaceholder,
     Blurhash(ROUTE_PLACEHOLDER_COMPONENTS_X, ROUTE_PLACEHOLDER_COMPONENTS_Y, [src |-> 2]),
     <<"0", "0", "~", "~", "~", "~">>,
     <<"L", "E", "/", "~", "~", "~", "~">>,
     <<"L", "E", "/", "0", "0", "0", "1", "z", "z">>,
     <<"a", "b", "/", "c", "/", "d", "e", "0">>,
     <<"0", "/", "1", "2">>,
     <<"a", "b", "c">>,
     <<>>}

\* What is known of one placeholder: the palette and the body it is built
\* from, the string, and the colour read back from it.
CodecJobs ==
    {[kind |-> "codec", pc |-> "cd_encode", body |-> body,
      palette |-> Some(<<SwatchColour(1, 1), SwatchColour(1, 2), c>>),
      placeholder |-> None, color |-> None] : body \in Bodies, c \in Colours}
    \cup {[kind |-> "codec", pc |-> "cd_decode", body |-> <<>>, palette |-> None,
           placeholder |-> Some(s), color |-> None] : s \in StoredPlaceholders}

\* export_poster, the Ok branch of get_palette: push('/') and
\* encode_fixed_to(color of palette[2], 4, ..).
cd_encode(p) ==
    /\ At(p, "codec", "cd_encode")
    /\ LET r == req[p]
           placeholder == WithAccent(r.body, [tag |-> "ok", val |-> r.palette.val])
       IN req' = [req EXCEPT ![p] =
               IF placeholder.tag = "panic" THEN [r EXCEPT !.pc = "done", !.color = placeholder]
               ELSE [r EXCEPT !.pc = "cd_decode", !.placeholder = placeholder]]
    /\ UNCHANGED <<db, files, keylog>>

\* recipient.poster.placeholder().map(get_dominant_color)
cd_decode(p) ==
    /\ At(p, "codec", "cd_decode")
    /\ req' = [req EXCEPT ![p] =
            [req[p] EXCEPT !.pc = "done",
                           !.color = get_dominant_color(req[p].placeholder.val)]]
    /\ UNCHANGED <<db, files, keylog>>

InitCodec ==
    /\ db = [i \in Ids |-> NoDoc]
    /\ files = [f \in Folders \X Keys |-> NoFile]
    /\ keylog = [i \in Ids |-> None]
    /\ req \in [Procs -> CodecJobs]

NextCodec == \E p \in Procs : cd_encode(p) \/ cd_decode(p)

SpecCodec == InitCodec /\ [][NextCodec]_vars

\* ------------------------------------------ the title of the presenter

TITLE_BASE_FONT_SIZE == 64
TITLE_FLOOR_SIZE == 16
TITLE_MAX_BYTES == 585
TITLE_MAX_HEIGHT == 212
TITLE_MARGIN == 64

\* A title as the layout sees it: `chars` characters of which the first
\* `lead` take one byte and the others `wide` bytes (1: Latin, 3: kanji),
\* in words of `word` characters (the space counted, 0: no space at all)
\* and with a line feed after every `para` characters (0: none).
Text(lead, wide, chars, word, para) ==
    [lead |-> lead, wide |-> wide, chars |-> chars, word |-> word, para |-> para]
TitleTexts ==
    {Text(0, 1, 0, 0, 0),       \* ""
     Text(0, 1, 15, 6, 0),      \* "Tokyo Revengers"
     Text(0, 1, 40, 6, 0),      \* a usual title of 40 characters
     Text(0, 1, 40, 6, 10),     \* 40 characters on 4 lines
     Text(0, 1, 120, 6, 0),     \* a long title
     Text(0, 1, 585, 6, 0),     \* exactly the budget
     Text(0, 1, 640, 6, 0),     \* prose over the budget
     Text(0, 1, 640, 6, 10),    \* over the budget, a line feed every 10
     Text(0, 3, 200, 0, 0),     \* 200 kanji, 600 bytes
     Text(1, 3, 196, 0, 0)}     \* "A" and 195 kanji, 586 bytes

\* The sizes of the template image, AnimePresenter.png.
Templates == {[w |-> 1200, h |-> 630], [w |-> 1920, h |-> 1080]}

\* str::len, and str::is_char_boundary
ByteLen(text) ==
    IF text.chars <= text.lead THEN text.chars
    ELSE text.lead + (text.chars - text.lead) * text.wide
IsCharBoundary(text, i) ==
    \/ i <= text.lead
    \/ i >= ByteLen(text)
    \/ (i - text.lead) % text.wide = 0

\* &text[..n], on a character boundary
Prefix(text, n) ==
    [text EXCEPT !.chars = IF n <= text.lead THEN n
                           ELSE text.lead + (n - text.lead) \div text.wide]

CeilDiv(a, b) == (a + b - 1) \div b

\* TextLayout::height of the segment wrapped by words in max_width: the
\* lines of every paragraph, each as high as the font's line (3/2 of the
\* size for Poppins); a Latin letter advances by 3/5 of the size, a kanji
\* by the size, and a line breaks between words, or between any two kanji.
LayoutLines(text, size, max_width) ==
    LET advance == IF text.wide = 1 THEN (3 * size) \div 5 ELSE size
        unit == IF text.word > 0 THEN text.word ELSE IF text.wide = 1 THEN text.chars ELSE 1
        perLine == IF unit = 0 \/ (max_width \div advance) \div unit = 0 THEN 1
                   ELSE (max_width \div advance) \div unit
        paraChars == IF text.para = 0 \/ text.para > text.chars THEN text.chars ELSE text.para
        paragraphs == IF text.para = 0 \/ text.chars = 0 THEN 1 ELSE CeilDiv(text.chars, text.para)
        units == IF unit = 0 THEN 0 ELSE CeilDiv(paraChars, unit)
        perPara == IF units = 0 THEN 1 ELSE CeilDiv(units, perLine)
    IN paragraphs * perPara
LayoutHeight(text, size, max_width) ==
    LayoutLines(text, size, max_width) * ((3 * size) \div 2)

\* let w = presenter.width() - poster_width - 64
TitleBoxWidth(template) ==
    template.w - (ANIME_POSTER_MEDIUM_WIDTH * template.h) \div ANIME_POSTER_MEDIUM_HEIGHT
               - TITLE_MARGIN

TitleJobs ==
    {[kind |-> "title", pc |-> "xp_title", title |-> t, template |-> tpl,
      text |-> t, max_width |-> 0, max_height |-> 0, size |-> 0,
      attempts |-> 0, drawn |-> <<>>, err |-> None] : t \in TitleTexts, tpl \in Templates}

\* export_presenter, "render title": the call of fit_and_draw_title
xp_title(p) ==
    /\ At(p, "title", "xp_title")
    /\ req' = [req EXCEPT ![p] =
            [req[p] EXCEPT !.pc = "ft_truncate",
                           !.max_width = TitleBoxWidth(req[p].template),
                           !.max_height = TITLE_MAX_HEIGHT,
                           !.size = TITLE_BASE_FONT_SIZE]]
    /\ UNCHANGED <<db, files, keylog>>

\* if text.len() > 585 { text = &text[..585]; }: the slice panics when
\* byte 585 is inside a character.
ft_truncate(p) ==
    /\ At(p, "title", "ft_truncate")
    /\ LET r == req[p]
       IN req' = [req EXCEPT ![p] =
               IF ByteLen(r.text) <= TITLE_MAX_BYTES THEN [r EXCEPT !.pc = "ft_layout"]
               ELSE IF IsCharBoundary(r.text, TITLE_MAX_BYTES)
                    THEN [r EXCEPT !.pc = "ft_layout", !.text = Prefix(r.text, TITLE_MAX_BYTES)]
                    ELSE [r EXCEPT !.pc = "done", !.err = Some("panic")]]
    /\ UNCHANGED <<db, files, keylog>>

\* The loop without its floor: only a layout that fits is drawn.
Attempt_NoFloor(r, height) ==
    IF height <= r.max_height
    THEN [r EXCEPT !.pc = "done", !.attempts = @ + 1,
                   !.drawn = Append(@, [size |-> r.size, height |-> height])]
    ELSE [r EXCEPT !.attempts = @ + 1, !.size = @ - 1]

\* One turn of the loop on a layout measured `height` high: it is drawn if
\* it fits or the size is at the floor, else the size goes down by one.
Attempt(r, height) ==
    IF height <= r.max_height \/ r.size <= TITLE_FLOOR_SIZE
    THEN [r EXCEPT !.pc = "done", !.attempts = @ + 1,
                   !.drawn = Append(@, [size |-> r.size, height |-> height])]
    ELSE [r EXCEPT !.attempts = @ + 1, !.size = @ - 1]

\* One turn of the loop with the layout drawn whatever its height.
ft_layout_Unmeasured(p) ==
    /\ At(p, "title", "ft_layout")
    /\ LET r == req[p]
           height == LayoutHeight(r.text, r.size, r.max_width)
       IN req' = [req EXCEPT ![p] =
               [r EXCEPT !.pc = "done", !.attempts = @ + 1,
                         !.drawn = Append(@, [size |-> r.size, height |-> height])]]
    /\ UNCHANGED <<db, files, keylog>>

\* The body of the loop, the layout measured on the text.
ft_layout(p) ==
    /\ At(p, "title", "ft_layout")
    /\ req' = [req EXCEPT ![p] =
            Attempt(req[p], LayoutHeight(req[p].text, req[p].size, req[p].max_width))]
    /\ UNCHANGED <<db, files, keylog>>

InitTitle ==
    /\ db = [i \in Ids |-> NoDoc]
    /\ files = [f \in Folders \X Keys |-> NoFile]
    /\ keylog = [i \in Ids |-> None]
    /\ req \in [Procs -> TitleJobs]

NextTitle == \E p \in Procs : xp_title(p) \/ ft_truncate(p) \/ ft_layout(p)

SpecTitle == InitTitle /\ [][NextTitle]_vars

\* The heights a layout can be measured at: fitting, just fitting, just
\* not, and far from it.
Heights == {0, TITLE_MAX_HEIGHT, TITLE_MAX_HEIGHT + 1, 96 * TITLE_MAX_HEIGHT}

\* The body of the loop, with any height for the layout of each turn.
ft_layout_any(p) ==
    /\ At(p, "title", "ft_layout")
    /\ \E height \in Heights : req' = [req EXCEPT ![p] = Attempt(req[p], height)]
    /\ UNCHANGED <<db, files, keylog>>

NextFit == \E p \in Procs : xp_title(p) \/ ft_truncate(p) \/ ft_layout_any(p)

\* fit_and_draw_title runs on one thread from its call to its return.
SpecFit == InitTitle /\ [][NextFit]_vars /\ WF_vars(NextFit)

\* ------------------------------------------------ the bearer token

TOKEN_LENGTH == 42

\* A token as sent: its length in bytes and the worst of its characters
\* ("nanoid": all of NANOID_ALPHABET; "punct": a visible ASCII character
\* outside it, "." or " "; "latin1": a byte above 127).
Token(id, len, chars) == [id |-> id, len |-> len, chars |-> chars]
Tokens ==
    {Token("A", TOKEN_LENGTH, "nanoid"),
     Token("S", TOKEN_LENGTH - 1, "nanoid"),
     Token("X", TOKEN_LENGTH + 1, "nanoid"),
     Token("P", TOKEN_LENGTH, "punct"),
     Token("L", TOKEN_LENGTH, "latin1"),
     Token("", 0, "nanoid")}

\* The Authorization header of a request: none, or a scheme and, after a
\* space if there is one, the rest of the value.
NoHeader == [scheme |-> "", rest |-> None]
AuthHeaders ==
    {NoHeader}
        \cup {[scheme |-> sc, rest |-> None] : sc \in {"Bearer", "Basic"}}
        \cup {[scheme |-> sc, rest |-> Some(t)] : sc \in {"Bearer", "Basic", "bearer"}, t \in Tokens}

\* What the session store holds under "tk:{token}": nothing, a string that
\* is no Session, or a Session.
Roles == {"user", "mod", "admin"}
Times == {1, 2, 3}
Absent == [tag |-> "absent"]
Garbage == [tag |-> "raw"]
StoredSession(role, expires_on) == [tag |-> "session", role |-> role, expires_on |-> expires_on]
StoreEntries == {Absent, Garbage} \cup {StoredSession(role, 2) : role \in Roles}

\* The routes of configure, and what a request can ask for.
AdminHandlers == {"push_anime", "patch_anime", "delete_anime", "update_sitemap"}
Requests == {"POST /s/anime", "PATCH /s/anime/{id}", "DELETE /s/anime/{id}",
             "POST /s/seo/sitemap", "GET /anime/{id}"}
\* routes::configure registers anime::configure only: no route leads to
\* update_sitemap.
Route(request) ==
    CASE request = "POST /s/anime" -> [handler |-> "push_anime", guard |-> Some("admin")]
      [] request = "PATCH /s/anime/{id}" -> [handler |-> "patch_anime", guard |-> Some("admin")]
      [] request = "DELETE /s/anime/{id}" -> [handler |-> "delete_anime", guard |-> Some("admin")]
      [] request = "GET /anime/{id}" -> [handler |-> "fetch_anime_details", guard |-> None]
      [] OTHER -> [handler |-> "default_endpoint", guard |-> None]

\* HeaderValue::to_str: visible ASCII only
to_str_ok(header) == ~(IsSome(header.rest) /\ header.rest.val.chars = "latin1")

\* str.len() == expected_len && str.chars().all(|c| NANOID_ALPHABET.contains(&c))
validate_nanoid(str, expected_len) == str.len = expected_len /\ str.chars = "nanoid"

\* RequireRoleGuard matching any session.
RequireRoleGuard_AnySession(role, session) == IsSome(session)

\* RequireRoleGuard(role).check
RequireRoleGuard(role, session) == IsSome(session) /\ session.val.role = role

\* The test of the expiry with the bound let through.
Expired_Late(session, now) == session.expires_on < now

\* session.expires_on <= now
Expired(session, now) == session.expires_on <= now

AuthJobs ==
    {[kind |-> "auth", pc |-> "gs_header", request |-> rq, header |-> h, now |-> now,
      lookups |-> 0, entry |-> None, session |-> None, status |-> 0,
      forwarded |-> FALSE, handler |-> ""] :
        rq \in Requests, h \in AuthHeaders, now \in Times}

Answer(r, status) == [r EXCEPT !.pc = "done", !.status = status]

\* get_session, down to validate_nanoid.
gs_header(p) ==
    /\ At(p, "auth", "gs_header")
    /\ LET r == req[p]
           h == r.header
       IN req' = [req EXCEPT ![p] =
               IF h = NoHeader \/ ~to_str_ok(h) \/ ~IsSome(h.rest) \/ h.scheme # "Bearer"
               THEN [r EXCEPT !.pc = "call"]
               ELSE IF ~validate_nanoid(h.rest.val, TOKEN_LENGTH) THEN Answer(r, 400)
               ELSE [r EXCEPT !.pc = "gs_lookup"]]
    /\ UNCHANGED <<db, files, keylog>>

\* get_session: the connection to redis and GET tk:{token}.
gs_lookup(p) ==
    /\ At(p, "auth", "gs_lookup")
    /\ \E o \in {"no_connection", "get_failed", "ok"}, e \in StoreEntries :
        LET r == req[p]
        IN req' = [req EXCEPT ![p] =
                IF o = "no_connection" THEN Answer(r, 500)
                ELSE IF o = "get_failed" THEN Answer([r EXCEPT !.lookups = @ + 1], 500)
                ELSE IF e = Absent THEN Answer([r EXCEPT !.lookups = @ + 1], 403)
                ELSE [r EXCEPT !.lookups = @ + 1, !.entry = Some(e), !.pc = "gs_session"]]
    /\ UNCHANGED <<db, files, keylog>>

\* get_session: serde_json::from_str and the test of expires_on; call
\* inserts a Valid session into the request's extensions.
gs_session(p) ==
    /\ At(p, "auth", "gs_session")
    /\ LET r == req[p]
           e == r.entry.val
       IN req' = [req EXCEPT ![p] =
               IF e.tag # "session" THEN Answer(r, 500)
               ELSE IF Expired(e, r.now) THEN Answer(r, 403)
               ELSE [r EXCEPT !.session = Some(e), !.pc = "call"]]
    /\ UNCHANGED <<db, files, keylog>>

\* svc.call(req): the route of the request, its guard, its handler.
call(p) ==
    /\ At(p, "auth", "call")
    /\ LET r == req[p]
           route == Route(r.request)
       IN req' = [req EXCEPT ![p] =
               [r EXCEPT !.pc = "done", !.forwarded = TRUE,
                         !.handler = IF IsSome(route.guard) /\ ~RequireRoleGuard(route.guard.val, r.session)
                                     THEN "default_endpoint" ELSE route.handler]]
    /\ UNCHANGED <<db, files, keylog>>

InitAuth ==
    /\ db = [i \in Ids |-> NoDoc]
    /\ files = [f \in Folders \X Keys |-> NoFile]
    /\ keylog = [i \in Ids |-> None]
    /\ req \in [Procs -> AuthJobs]

NextAuth == \E p \in Procs : gs_header(p) \/ gs_lookup(p) \/ gs_session(p) \/ call(p)

SpecAuth == InitAuth /\ [][NextAuth]_vars

\* ------------------------------------------------ sync_meilisearch

ANIMES_INDEX_BATCH_SIZE == 32
\* The largest collection looked at.
MaxDocs == 70

\* The collection is its documents 1..docs in the order of the cursor; the
\* index reports as many documents, one more, or none.
SyncJobs ==
    UNION {{[kind |-> "sync", pc |-> "sm_index", docs |-> n, index_count |-> c,
             cur |-> 0, queue |-> <<>>, sent |-> <<>>, result |-> ""] :
                c \in {0, n, n + 1}} : n \in 0..MaxDocs}

Return_(r, result) == [r EXCEPT !.pc = "done", !.result = result]

\* get_index, the creation of a missing index, count_documents, get_stats
\* and the comparison of the two counts.
sm_index(p) ==
    /\ At(p, "sync", "sm_index")
    /\ \E o \in {"index_failed", "count_failed", "stats_failed", "ok"} :
        LET r == req[p]
        IN req' = [req EXCEPT ![p] =
                IF o # "ok" THEN Return_(r, "err")
                ELSE IF r.index_count = r.docs THEN Return_(r, "ok")
                ELSE [r EXCEPT !.pc = "sm_find"]]
    /\ UNCHANGED <<db, files, keylog>>

\* col.find(doc! {}, batch_size) and the empty queue
sm_find(p) ==
    /\ At(p, "sync", "sm_find")
    /\ \E o \in {"find_failed", "ok"} :
        req' = [req EXCEPT ![p] =
            IF o = "ok" THEN [req[p] EXCEPT !.pc = "sm_advance", !.cur = 0, !.queue = <<>>]
            ELSE Return_(req[p], "err")]
    /\ UNCHANGED <<db, files, keylog>>

\* One turn of the while loop with the queue kept after a send.
sm_advance_NoClear(p) ==
    /\ At(p, "sync", "sm_advance")
    /\ \E o \in {"advance_failed", "send_failed", "ok"} :
        LET r == req[p]
            queue == Append(r.queue, r.cur + 1)
        IN req' = [req EXCEPT ![p] =
                IF o = "advance_failed" THEN Return_(r, "err")
                ELSE IF r.cur = r.docs THEN [r EXCEPT !.pc = "sm_flush"]
                ELSE IF Len(queue) = ANIMES_INDEX_BATCH_SIZE
                THEN (IF o = "send_failed" THEN Return_([r EXCEPT !.cur = @ + 1, !.queue = queue], "err")
                      ELSE [r EXCEPT !.cur = @ + 1, !.queue = queue, !.sent = Append(@, queue)])
                ELSE [r EXCEPT !.cur = @ + 1, !.queue = queue]]
    /\ UNCHANGED <<db, files, keylog>>

\* One turn of the while loop: cur.advance(), the push of the current
\* document and, at 32, add_or_replace of the queue and its clear.
sm_advance(p) ==
    /\ At(p, "sync", "sm_advance")
    /\ \E o \in {"advance_failed", "send_failed", "ok"} :
        LET r == req[p]
            queue == Append(r.queue, r.cur + 1)
        IN req' = [req EXCEPT ![p] =
                IF o = "advance_failed" THEN Return_(r, "err")
                ELSE IF r.cur = r.docs THEN [r EXCEPT !.pc = "sm_flush"]
                ELSE IF Len(queue) = ANIMES_INDEX_BATCH_SIZE
                THEN (IF o = "send_failed" THEN Return_([r EXCEPT !.cur = @ + 1, !.queue = queue], "err")
                      ELSE [r EXCEPT !.cur = @ + 1, !.queue = <<>>, !.sent = Append(@, queue)])
                ELSE [r EXCEPT !.cur = @ + 1, !.queue = queue]]
    /\ UNCHANGED <<db, files, keylog>>

\* After the loop: a queue that is not empty is sent, and Ok(()).
sm_flush(p) ==
    /\ At(p, "sync", "sm_flush")
    /\ \E o \in {"send_failed", "ok"} :
        LET r == req[p]
        IN req' = [req EXCEPT ![p] =
                IF r.queue = <<>> THEN Return_(r, "ok")
                ELSE IF o = "send_failed" THEN Return_(r, "err")
                ELSE Return_([r EXCEPT !.sent = Append(@, r.queue)], "ok")]
    /\ UNCHANGED <<db, files, keylog>>

InitSync ==
    /\ db = [i \in Ids |-> NoDoc]
    /\ files = [f \in Folders \X Keys |-> NoFile]
    /\ keylog = [i \in Ids |-> None]
    /\ req \in [Procs -> SyncJobs]

NextSync == \E p \in Procs : sm_index(p) \/ sm_find(p) \/ sm_advance(p) \/ sm_flush(p)

SpecSync == InitSync /\ [][NextSync]_vars

Next ==
    \/ push_anime
    \/ \E p \in Procs :
        \/ pa_begin(p)
        \/ ep_decode(p)
        \/ ep_fullres(p)
        \/ ep_resize(p)
        \/ ep_thumb(p)
        \/ ep_hash(p)
        \/ ep_fonts(p)
        \/ ep_presenter(p)
        \/ pa_apply(p)

Spec == Init /\ [][Next]_vars


\* ============================================================ claims

Pipelines == {"patch", "gen"}
Last(seq) == seq[Len(seq)]
SourceSized(x) == x.w = SrcWidth(x.src) /\ x.h = SrcHeight(x.src)
ThumbSized(x) == x.w = 310 /\ x.h = 468

\* What a step of export_poster by worker p must look like, by the step
\* that has just completed.
C1_Step(p) ==
    LET r == req[p]
        n == req'[p]
        step == Last(n.steps)
        key == n.key
    IN (n.kind \in Pipelines /\ n.steps # <<>> /\ n.steps # r.steps) =>
        /\ n.steps = Append(r.steps, step)
        /\ step = "decode" =>
            /\ r.steps = <<>>
            /\ n.image.src = n.poster.val.upload.src /\ SourceSized(n.image)
            /\ files' = files
        /\ step = "fullres" =>
            /\ r.steps = <<"decode">>
            /\ n.image = r.image /\ SourceSized(r.image)
            /\ files'[<<FULLRES, key>>].kind = "file"
            /\ files'[<<FULLRES, key>>].src = r.image.src
            /\ SourceSized(files'[<<FULLRES, key>>])
            /\ files'[<<MEDIUM, key>>] = files[<<MEDIUM, key>>]
        /\ step = "resize" =>
            /\ r.steps = <<"decode", "fullres">>
            /\ SourceSized(r.image) /\ ThumbSized(n.image)
            /\ files' = files
        /\ step = "thumb" =>
            /\ r.steps = <<"decode", "fullres", "resize">>
            /\ n.image = r.image
            /\ files'[<<MEDIUM, key>>].kind = "file"
            /\ files'[<<MEDIUM, key>>].src = r.image.src
            /\ ThumbSized(files'[<<MEDIUM, key>>])
            /\ files'[<<FULLRES, key>>] = files[<<FULLRES, key>>]
        /\ step \in {"hash", "fonts", "presenter"} =>
            SubSeq(r.steps, 1, 4) = <<"decode", "fullres", "resize", "thumb">>

\* C1: every execution of export_poster runs decode, the full-resolution
\* write, the resize to 310x468 and the thumbnail write in that order: the
\* full-resolution file is encoded from the decoded buffer at the source's
\* size before the buffer is resized, the thumbnail is encoded from the
\* resized buffer, and a step runs only when every step before it succeeded.
C1_StepOrder == [][\A p \in Procs : C1_Step(p)]_vars

\* A run of export_poster that wrote both files: the full-resolution one at
\* the source's size and the thumbnail at 310x468.
C1_Witness ==
    \E p \in Procs :
        /\ req[p].kind = "gen"
        /\ Len(req[p].steps) >= 4
        /\ SourceSized(files[<<FULLRES, req[p].key>>])
        /\ ThumbSized(files[<<MEDIUM, req[p].key>>])

\* The stages of export_poster whose failure is a failure of derivative
\* generation: the upload cannot be opened or decoded, a write fails.
DerivativeStages == {"open", "decode", "fullres", "thumb"}
PresenterStages == {"font", "presenter"}

Answered(p) == req[p].kind = "patch" /\ req[p].pc = "done"

\* C2: a patch_anime request whose derivative generation failed is answered
\* with an internal error (HTTP 500), whatever else the patch carries.
C2_FailureIsInternalError ==
    \A p \in Procs :
        (Answered(p) /\ req[p].err \in DerivativeStages) =>
            req[p].resp \in {"internal_error", "db_error"}

\* C3: a failure of the presenter stage alone does not fail the request that
\* triggered it, and when the request succeeds the new CachedImage with its
\* placeholder is recorded on the entity.
C3_PresenterFailureIsBestEffort ==
    \A p \in Procs :
        (Answered(p) /\ req[p].err \in PresenterStages) =>
            /\ req[p].resp # "internal_error"
            /\ req[p].resp = "no_content" =>
                /\ IsSome(req[p].set)
                /\ db[req[p].id].placeholder = req[p].set.val.placeholder

\* C4: palette extraction never aborts export_poster: a run that wrote the
\* thumbnail returns a CachedImage, and for an image with fewer than three
\* colours its placeholder has no "/".
C4_PaletteNeverAborts ==
    \A p \in Procs :
        (req[p].kind = "gen" /\ req[p].pc = "done" /\ Len(req[p].steps) >= 4) =>
            /\ req[p].resp = "ok"
            /\ IsSome(req[p].set)
            /\ NColours(req[p].image.src) <= 2 =>
                   SlashAt(req[p].set.val.placeholder.val) = 0

\* The value of the four base83 characters s[3..6], digit by digit.
BodyColour(s) ==
    DigitValue(s[3]) * (83 * 83 * 83) + DigitValue(s[4]) * (83 * 83)
        + DigitValue(s[5]) * 83 + DigitValue(s[6])

Presenting(p) == req[p].kind = "pre" /\ IsSome(req[p].accent)
NoSuffix(placeholder) ==
    IsSome(placeholder) /\ \A i \in 1..Len(placeholder.val) : placeholder.val[i] # "/"

C6_Step(p) ==
    LET r == req[p]
        n == req'[p]
    IN (n # r /\ n.kind = "patch" /\ IsSome(n.poster)
            /\ n.poster.val.ctype \notin {"image/webp", "image/png"}) =>
        /\ n.pc = "done" /\ n.resp = "bad_request"
        /\ n.steps = <<>> /\ n.image = NoImage /\ n.set = None
        /\ files' = files
        /\ db' = db

\* C6: a poster declared as neither image/webp nor image/png makes
\* patch_anime answer bad request at once: export_poster is not called,
\* nothing is decoded, no file and no document changes.
C6_RejectedBeforeDecode == [][\A p \in Procs : C6_Step(p)]_vars

\* A rejected image/jpeg poster for a document that exists.
C6_Witness ==
    \E p \in Procs :
        /\ Answered(p) /\ req[p].resp = "bad_request"
        /\ req[p].id \in Ids /\ db[req[p].id] # NoDoc
        /\ IsSome(req[p].poster) /\ req[p].poster.val.ctype = "image/jpeg"

\* The format a content type declares.
Declared(ctype) == IF ctype = "image/webp" THEN "webp" ELSE "png"

\* C7: for a valid image declared as image/webp or image/png, export_poster
\* does not fail to decode it, and when no step fails the full-resolution
\* file has the source's width and height.
C7_ValidImageIsDecoded ==
    \A p \in Procs :
        (/\ req[p].kind = "patch" /\ req[p].pc \in {"apply", "done"}
         /\ IsSome(req[p].poster)
         /\ req[p].poster.val.ctype \in {"image/webp", "image/png"}
         /\ req[p].poster.val.upload.fmt = Declared(req[p].poster.val.ctype)
         /\ req[p].resp # "bad_request") =>
            /\ req[p].err # "decode"
            /\ req[p].err = "" =>
                /\ IsSome(req[p].set)
                /\ SourceSized(files[<<FULLRES, req[p].key>>])

\* C8: a document keeps the poster key it was created with through every
\* patch, and every file written is named with the key of a document.
C8_KeyIsKept ==
    [][/\ \A id \in Ids :
            db[id] # NoDoc => (db'[id] # NoDoc /\ db'[id].key = db[id].key)
       /\ \A f \in DOMAIN files :
            files'[f] # files[f] => \E id \in Ids : db[id] # NoDoc /\ f[2] = db[id].key
      ]_vars

\* A document whose poster was regenerated from image 2 and then, in part,
\* from image 1: the key is still the one it was created with.
C8_Witness ==
    \E id \in Ids :
        /\ db[id] # NoDoc
        /\ db[id].placeholder = Some(Blurhash(4, 6, [src |-> 2]))
        /\ files[<<MEDIUM, db[id].key>>].kind = "file"
        /\ files[<<MEDIUM, db[id].key>>].src = 1

\* C9: the poster key of a created document is the 20-character key
\* push_anime generated for it.
C9_GeneratedKeyIsStored ==
    \A id \in Ids :
        db[id] # NoDoc =>
            /\ IsSome(keylog[id])
            /\ db[id].key = keylog[id].val
            /\ Len(db[id].key) = KEY_LENGTH

\* What a step of worker p must look like when its full-resolution write
\* does not complete.
C10_Step(p) ==
    LET r == req[p]
        n == req'[p]
    IN /\ (/\ r.kind = "gen" /\ r.pc = "gp_fullres" /\ n # r
           /\ \/ n.steps = r.steps
              \/ files'[<<FULLRES, r.key>>] # Encoded(r.image, "lossless")) =>
            /\ n.pc = "done" /\ n.resp = "err"
            /\ n.image = r.image
            /\ n.placeholder = None /\ n.set = None
            /\ files'[<<MEDIUM, r.key>>] = files[<<MEDIUM, r.key>>]
            /\ files'[<<PRESENTER, r.key>>] = files[<<PRESENTER, r.key>>]
       /\ (n.kind = "gen" /\ n.err = "fullres") =>
            /\ n.pc = "done" /\ n.resp = "err"
            /\ n.steps = <<"decode">>
            /\ SourceSized(n.image)
            /\ n.set = None

C11_ThumbFailed(p) ==
    /\ req[p].kind = "patch" /\ req[p].pc = "ep_thumb" /\ req'[p] # req[p]
    /\ \/ req'[p].steps = req[p].steps
       \/ files'[<<MEDIUM, req[p].key>>] # Encoded(req[p].image, "default")

\* What C11 says of every step, but for the state of the thumbnail file.
C11_Step(p) ==
    LET r == req[p]
        n == req'[p]
        full == <<FULLRES, r.key>>
    IN /\ C11_ThumbFailed(p) =>
            /\ n.pc \in {"done", "apply"}
            /\ n.pc = "done" => n.resp = "internal_error"
            /\ n.set = None /\ n.placeholder = None
            /\ files'[full] = files[full]
            /\ files'[full].kind = "file"
            /\ files'[full].src = r.poster.val.upload.src
            /\ SourceSized(files'[full])
       /\ (r.kind = "patch" /\ r.err = "thumb" /\ r.id \in Ids /\ db[r.id] # NoDoc) =>
            /\ n.kind = "patch" => n.set = None
            /\ db'[r.id].key = db[r.id].key
            /\ db'[r.id].placeholder = db[r.id].placeholder

\* C11 as claimed: when the thumbnail write fails after the full-resolution
\* write succeeded, export_poster returns an error, the full-resolution file
\* holds the new image, the thumbnail file of a key that had none is
\* missing, and patch_anime records no new poster or placeholder.
C11_ThumbFailureLeavesNoThumb ==
    [][\A p \in Procs :
          /\ C11_Step(p)
          /\ (C11_ThumbFailed(p) /\ files[<<MEDIUM, req[p].key>>] = NoFile) =>
                files'[<<MEDIUM, req[p].key>>] = NoFile]_vars

\* C11 as amended: the thumbnail file is left as it was, or created and
\* incomplete; it never holds a complete new thumbnail.
C11_ThumbFailureLeavesNoNewThumb ==
    [][\A p \in Procs :
          /\ C11_Step(p)
          /\ C11_ThumbFailed(p) =>
                files'[<<MEDIUM, req[p].key>>] \in {files[<<MEDIUM, req[p].key>>], Partial}]_vars

\* patch_anime has answered after a thumbnail write that failed: the
\* full-resolution file holds the upload, the thumbnail file is incomplete
\* and the entity still has no placeholder.
C11_Witness ==
    \E p \in Procs :
        /\ Answered(p) /\ req[p].err = "thumb"
        /\ files[<<FULLRES, req[p].key>>].kind = "file"
        /\ files[<<FULLRES, req[p].key>>].src = req[p].poster.val.upload.src
        /\ files[<<MEDIUM, req[p].key>>] = Partial
        /\ db[req[p].id].placeholder = None

\* The three files of worker p's key all come from the upload of p's request.
C12_AllFromThisRun(p) ==
    LET r == req[p]
        src == r.poster.val.upload.src
        full == files[<<FULLRES, r.key>>]
        thumb == files[<<MEDIUM, r.key>>]
        pre == files[<<PRESENTER, r.key>>]
    IN /\ full.kind = "file" /\ full.src = src /\ SourceSized(full)
       /\ thumb.kind = "file" /\ thumb.src = src /\ ThumbSized(thumb)
       /\ pre.kind = "presenter" /\ pre.src = src

\* C12: once a poster regeneration has completed successfully, with no other
\* pipeline at work on the key, the full-resolution, thumbnail and presenter
\* files of the key all derive from that regeneration, whatever the files
\* held before it.
C12_RegenerationOverwritesAll ==
    \A p \in Procs :
        (req[p].kind = "patch" /\ IsSome(req[p].set)) => C12_AllFromThisRun(p)

\* A regeneration from image 2 has completed for an entity whose recorded
\* placeholder still is the one of an earlier generation from image 1.
C12_Witness ==
    \E p \in Procs :
        /\ req[p].kind = "patch" /\ IsSome(req[p].set)
        /\ req[p].poster.val.upload.src = 2
        /\ db[req[p].id].placeholder = Some(Blurhash(4, 6, [src |-> 1]))
        /\ C12_AllFromThisRun(p)

\* C13: once a patch that changes the title or the poster of an entity has
\* completed, the presenter file of the entity's key has been regenerated:
\* it shows the entity's current first title and its current poster.
C13_PresenterFollowsPatch ==
    \A p \in Procs :
        (/\ Answered(p) /\ req[p].resp = "no_content"
         /\ IsSome(req[p].titles) \/ IsSome(req[p].set)) =>
            LET doc == db[req[p].id]
                pre == files[<<PRESENTER, doc.key>>]
            IN /\ pre.kind = "presenter"
               /\ pre.title = doc.title
               /\ pre.src = files[<<FULLRES, doc.key>>].src

\* The picture a file decodes to: what it holds up to the end of the image.
Picture(c) == [x \in DOMAIN c \ {"tail"} |-> c[x]]

\* What a step of worker p that completes a write must leave in the file.
C14_Step(p) ==
    LET r == req[p]
        n == req'[p]
        src == r.poster.val.upload.src
        full == Picture(files'[<<FULLRES, r.key>>])
        thumb == Picture(files'[<<MEDIUM, r.key>>])
        pre == Picture(files'[<<PRESENTER, r.key>>])
    IN /\ (r.kind = "gen" /\ n.steps = Append(r.steps, "fullres")) =>
            /\ full.kind = "file" /\ full.src = src /\ SourceSized(full)
            /\ full.lossless = "lossless"
       /\ (r.kind = "gen" /\ n.steps = Append(r.steps, "thumb")) =>
            /\ thumb.kind = "file" /\ thumb.src = src /\ ThumbSized(thumb)
       /\ (r.kind = "pre" /\ r.resp # "ok" /\ n.resp = "ok") =>
            /\ pre.kind = "presenter" /\ pre.src = r.image.src
            /\ pre.title = r.title /\ pre.accent = r.accent.val
       /\ \A f \in DOMAIN files :
            (n # r /\ files'[f] # files[f]) => f[2] = r.key

\* C14: overlapping regenerations of one key are not serialised, and the
\* last writer wins on each file: when a run completes a write, the file
\* holds the complete picture that run encoded, whatever the other run did
\* to the file before.
C14_LastWriterWins == [][\A p \in Workers : C14_Step(p)]_vars

\* Both runs for one key are over and a reader finds a full-resolution file
\* of one generation with a thumbnail of the other, next to a presenter.
C14_Witness ==
    \E k \in ParKeys :
        /\ \A p \in Workers : req[p].pc = "done" /\ req[p].key = k
        /\ files[<<FULLRES, k>>].kind = "file"
        /\ files[<<MEDIUM, k>>].kind = "file"
        /\ files[<<PRESENTER, k>>].kind = "presenter"
        /\ files[<<FULLRES, k>>].src # files[<<MEDIUM, k>>].src

\* Worker p's run has the key to itself.
C15_Alone(p) ==
    \A q \in Workers \ {p} : req[q].kind = "none" \/ req[q].key # req[p].key

\* The three files of the key of worker p's finished run are those the run
\* leaves when it runs alone.
C15_AsAlone(p) ==
    (C15_Alone(p) /\ req[p].kind = "pre" /\ req[p].pc = "done" /\ req[p].resp = "ok") =>
        LET u == req[p].poster.val.upload
            image == from_reader("webp", u)
        IN /\ files[<<FULLRES, req[p].key>>] = Encoded(image, "lossless")
           /\ files[<<MEDIUM, req[p].key>>] = Encoded(resize(image, 310, 468), "q80")
           /\ files[<<PRESENTER, req[p].key>>].kind = "presenter"
           /\ files[<<PRESENTER, req[p].key>>].src = u.src
           /\ files[<<PRESENTER, req[p].key>>].title = req[p].title

\* C15: a run touches no file of a key that is not its own and composes its
\* presenter from the full-resolution file it wrote itself, so that when a
\* run whose key no other run uses is over, the three files of its key are
\* the upload at full size, its thumbnail and the presenter composed from
\* it, as when it runs alone.
C15_KeysAreIndependent ==
    [][\A p \in Workers :
          /\ \A f \in DOMAIN files :
                (req'[p] # req[p] /\ files'[f] # files[f]) => f[2] = req[p].key
          /\ (C15_Alone(p) /\ req[p].kind = "pre" /\ req'[p].pc = "xp_write") =>
                req'[p].image.src = req[p].poster.val.upload.src
          /\ C15_AsAlone(p)']_vars

\* Two runs with different keys and different uploads are both over.
C15_Witness ==
    /\ \A p \in Workers : req[p].kind = "pre" /\ req[p].pc = "done" /\ req[p].resp = "ok"
    /\ req["w1"].key # req["w2"].key
    /\ req["w1"].poster.val.upload.src # req["w2"].poster.val.upload.src

\* C16: encoding an accent colour and decoding it again is the identity:
\* get_dominant_color of body + "/" + the 4 base83 characters of the third
\* swatch of the palette is exactly the (r, g, b) of that swatch.
C16_AccentRoundTrip ==
    \A p \in Procs :
        (req[p].kind = "codec" /\ req[p].pc = "done" /\ IsSome(req[p].palette)) =>
            /\ Len(req[p].placeholder.val) = Len(req[p].body) + 5
            /\ SubSeq(req[p].placeholder.val, 1, Len(req[p].body)) = req[p].body
            /\ req[p].placeholder.val[Len(req[p].body) + 1] = "/"
            /\ req[p].color = Some(req[p].palette.val[3])

\* The swatch (255, 128, 1) has been appended to a 4x7 body and read back.
C16_Witness ==
    \E p \in Procs :
        /\ req[p].kind = "codec" /\ req[p].pc = "done"
        /\ Len(req[p].body) = 60
        /\ req[p].palette = Some(<<SwatchColour(1, 1), SwatchColour(1, 2), <<255, 128, 1>> >>)
        /\ req[p].color = Some(<<255, 128, 1>>)

\* The value of the 4 base83 characters of s that start at index i, and the
\* three bytes of a value.
Value4(s, i) ==
    DigitValue(s[i]) * 571787 + DigitValue(s[i + 1]) * 6889
        + DigitValue(s[i + 2]) * 83 + DigitValue(s[i + 3])
Bytes(v) == << (v \div 65536) % 256, (v \div 256) % 256, v % 256 >>

\* C17: get_dominant_color branches on the separator: with a "/" the colour
\* is decoded from the 4 characters after the first "/", without one from
\* the characters at positions 2 to 5; the value is split into R = bits
\* 16-23, G = bits 8-15, B = bits 0-7.
C17_BranchOnSeparator ==
    \A p \in Procs :
        (req[p].kind = "codec" /\ req[p].pc = "done" /\ IsSome(req[p].placeholder)) =>
            LET s == req[p].placeholder.val
                slashes == {i \in 1..Len(s) : s[i] = "/"}
                first == CHOOSE i \in slashes : \A j \in slashes : i <= j
                start == IF slashes # {} THEN first + 1 ELSE 3
            IN start + 3 <= Len(s) =>
                  req[p].color =
                      IF \A i \in start..(start + 3) : IsDigit(s[i])
                      THEN Some(Bytes(Value4(s, start)))
                      ELSE None

\* The colour of the stored placeholder of get_anime(), which has no "/",
\* has been read from its characters 2 to 5.
C17_Witness ==
    \E p \in Procs :
        /\ req[p].kind = "codec" /\ req[p].pc = "done"
        /\ req[p].placeholder = Some(SamplePlaceholder)
        /\ req[p].color = Some(<<210, 144, 119>>)

\* C18: every placeholder the pipeline produces has a body of the length the
\* 4 x 7 grid fixes (4 + 2 * 4 * 7 characters), whatever the size of the
\* source image; the total length varies only by the 5 characters of "/"
\* and accent.
C18_BodyLengthFixed ==
    \A p \in Procs :
        (req[p].kind \in Pipelines /\ IsSome(req[p].set)) =>
            LET s == req[p].set.val.placeholder.val
                body == IF SlashAt(s) = 0 THEN Len(s) ELSE SlashAt(s) - 1
            IN /\ body = 4 + 2 * 4 * 7
               /\ Len(s) \in {body, body + 5}

\* C19: for every title (empty, about 40 characters, longer than 600) the
\* layout that fit_and_draw_title draws is at most 212 high.
C19_TitleWithinBox ==
    \A p \in Procs :
        req[p].kind = "title" =>
            \A i \in DOMAIN req[p].drawn : req[p].drawn[i].height <= TITLE_MAX_HEIGHT

\* C19, amended: a layout drawn at a size above the floor of 16 is at most
\* 212 high; at the floor the layout is drawn as high as it is, and a title
\* of 59 lines is drawn higher than the box.
C19_TitleWithinBoxAboveFloor ==
    \A p \in Procs :
        req[p].kind = "title" =>
            \A i \in DOMAIN req[p].drawn :
                \/ req[p].drawn[i].height <= TITLE_MAX_HEIGHT
                \/ /\ req[p].drawn[i].size = TITLE_FLOOR_SIZE
                   /\ req[p].drawn[i].height = LayoutHeight(req[p].text, TITLE_FLOOR_SIZE, req[p].max_width)

\* A title over the budget that was shrunk until it fitted, above the floor.
C19_Witness ==
    \E p \in Procs :
        /\ req[p].kind = "title" /\ req[p].pc = "done"
        /\ ByteLen(req[p].title) > 600
        /\ req[p].drawn # <<>>
        /\ req[p].drawn[1].size > TITLE_FLOOR_SIZE
        /\ req[p].drawn[1].size < TITLE_BASE_FONT_SIZE
        /\ req[p].drawn[1].height <= TITLE_MAX_HEIGHT

\* The sizes at which the text of job r fits the box.
FittingSizes(r) ==
    {s \in TITLE_FLOOR_SIZE..TITLE_BASE_FONT_SIZE :
        LayoutHeight(r.text, s, r.max_width) <= r.max_height}
MaxOf(S) == CHOOSE x \in S : \A y \in S : y <= x

\* C20: fit_and_draw_title draws the title exactly once, at the largest
\* size of 64, 63, ..., 16 whose wrapped layout fits the box, or at 16 when
\* none fits; never below 16 nor above 64.
C20_DrawnOnceAtLargestFit ==
    \A p \in Procs :
        (req[p].kind = "title" /\ req[p].pc = "done") =>
            /\ Len(req[p].drawn) = 1
            /\ req[p].drawn[1].size \in TITLE_FLOOR_SIZE..TITLE_BASE_FONT_SIZE
            /\ req[p].drawn[1].size =
                   IF FittingSizes(req[p]) = {} THEN TITLE_FLOOR_SIZE
                   ELSE MaxOf(FittingSizes(req[p]))

\* The same for the titles whose truncation did not abort.
C20_LoopDrawsOnceAtLargestFit ==
    \A p \in Procs :
        (req[p].kind = "title" /\ req[p].pc = "done" /\ req[p].err = None) =>
            /\ Len(req[p].drawn) = 1
            /\ req[p].drawn[1].size \in TITLE_FLOOR_SIZE..TITLE_BASE_FONT_SIZE
            /\ req[p].drawn[1].size =
                   IF FittingSizes(req[p]) = {} THEN TITLE_FLOOR_SIZE
                   ELSE MaxOf(FittingSizes(req[p]))

\* C21: the font-fitting loop terminates for every title and whatever the
\* heights the layouts are measured at: from size 64 it ends after at most
\* 49 layout attempts, also when the title never fits the box.
C21_LoopTerminates ==
    /\ [](\A p \in Procs : req[p].attempts <= 49)
    /\ <>(\A p \in Procs : req[p].pc = "done")

\* A title that fitted at no size: 49 attempts, drawn at the floor.
C21_Witness ==
    \E p \in Procs :
        /\ req[p].pc = "done" /\ req[p].attempts = 49
        /\ Len(req[p].drawn) = 1
        /\ req[p].drawn[1].size = TITLE_FLOOR_SIZE
        /\ req[p].drawn[1].height > TITLE_MAX_HEIGHT

\* C22: for every title, multi-byte characters included, fit_and_draw_title
\* lays out a prefix of the title of at most 585, the truncation never
\* fails, and a title within the budget is laid out unchanged.
C22_TruncationNeverFails ==
    \A p \in Procs :
        (req[p].kind = "title" /\ req[p].pc \in {"ft_layout", "done"}) =>
            LET r == req[p]
            IN /\ r.err = None
               /\ ByteLen(r.text) <= TITLE_MAX_BYTES
               /\ r.text.chars <= r.title.chars
               /\ r.text = [r.title EXCEPT !.chars = r.text.chars]
               /\ ByteLen(r.title) <= TITLE_MAX_BYTES => r.text = r.title

\* C23: get_dominant_color is total: for every placeholder, the empty one,
\* a body shorter than 6 without "/", a "/" followed by fewer than 4
\* characters and characters outside the alphabet included, it returns a
\* colour or None and never aborts; on None export_presenter uses the
\* brand colour.
C23_DominantColourIsTotal ==
    \A p \in Procs :
        (req[p].kind = "codec" /\ req[p].pc = "done") =>
            /\ req[p].color.tag \in {"some", "none"}
            /\ req[p].color = None =>
                   avg_color(req[p].placeholder) = [tag |-> "ok", val |-> ACCENT_COLOR]

ErrorResponses == {"bad_request", "not_found", "internal_error", "db_error"}

\* C24: when patch_anime answers with an error response (bad request, not
\* found, internal or database error) the entity's record in the document
\* store is as it was: a failure of the search-index update after the
\* database update leaves no modified record behind the error.
C24_ErrorLeavesRecord ==
    [][\A p \in Procs :
          (/\ req[p].kind = "patch" /\ req[p].pc # "done"
           /\ req'[p].pc = "done" /\ req'[p].resp \in ErrorResponses) => db' = db]_vars

WellFormed(header) ==
    /\ header.scheme = "Bearer" /\ IsSome(header.rest)
    /\ header.rest.val.len = 42
    /\ header.rest.val.chars = "nanoid"

\* C25: a request reaches an admin-only handler (create, patch or delete an
\* anime, rebuild the sitemap) only if it carried a well-formed bearer token
\* of 42 characters for which a session is stored whose expires_on is
\* strictly later than the current time and whose role is exactly Admin.
C25_AdminOnly ==
    \A p \in Procs :
        (req[p].kind = "auth" /\ req[p].handler \in AdminHandlers) =>
            /\ WellFormed(req[p].header)
            /\ req[p].lookups = 1
            /\ IsSome(req[p].entry) /\ req[p].entry.val.tag = "session"
            /\ req[p].entry.val.expires_on > req[p].now
            /\ req[p].entry.val.role = "admin"

\* An administrator's request that reached patch_anime.
C25_Witness ==
    \E p \in Procs :
        /\ req[p].kind = "auth" /\ req[p].pc = "done"
        /\ req[p].handler = "patch_anime"
        /\ req[p].entry = Some(StoredSession("admin", 2)) /\ req[p].now = 1

\* C26: a request with a Bearer Authorization header is forwarded to the
\* inner service only with a valid token: a malformed token (not 42 long,
\* or a character outside the alphabet) is answered 400 without a lookup in
\* the session store, an unknown or expired one 403, an error of the store
\* or of the parse 500; only a request with no Authorization header or
\* another scheme passes as anonymous, without a session.
C26_BearerNeverForwardedInvalid ==
    \A p \in Procs :
        (req[p].kind = "auth" /\ req[p].pc = "done") =>
            LET r == req[p]
                bearer == r.header.scheme = "Bearer"
            IN /\ (bearer /\ r.forwarded) =>
                      /\ WellFormed(r.header)
                      /\ IsSome(r.session) /\ r.session.val.expires_on > r.now
               /\ (bearer /\ ~WellFormed(r.header)) => (r.status = 400 /\ r.lookups = 0)
               /\ (r.forwarded /\ ~IsSome(r.session)) => ~bearer
               /\ r.status \in {0, 400, 403, 500}
               /\ r.status = 0 <=> r.forwarded

RECURSIVE Flatten(_)
Flatten(batches) ==
    IF batches = <<>> THEN <<>> ELSE Head(batches) \o Flatten(Tail(batches))

\* What a finished sync_meilisearch sent: nothing when the counts agree,
\* else every document once in cursor order, in batches of 32 and a last
\* one, not empty, of fewer.
SentAll(r) ==
    /\ r.index_count = r.docs => r.sent = <<>>
    /\ r.index_count # r.docs =>
        /\ Flatten(r.sent) = [i \in 1..r.docs |-> i]
        /\ \A k \in 1..Len(r.sent) :
            /\ r.sent[k] # <<>>
            /\ k < Len(r.sent) => Len(r.sent[k]) = 32
            /\ Len(r.sent[k]) <= 32

\* C27: sync_meilisearch sends nothing when the index counts as many
\* documents as the collection; otherwise, when it returns Ok, every
\* document of the collection was sent exactly once, in cursor order, in
\* batches of exactly 32 but for a last, non-empty batch of fewer, and the
\* queue is empty after each send.
C27_SyncSendsAll ==
    \A p \in Procs :
        req[p].kind = "sync" =>
            /\ (req[p].pc = "done" /\ req[p].result = "ok") => SentAll(req[p])
            /\ (req[p].sent # <<>> /\ req[p].pc \in {"sm_advance", "sm_flush", "done"}
                    /\ req[p].cur = Len(Flatten(req[p].sent))) => req[p].queue = <<>>

\* C27, amended: as above, but the queue is cleared after the send of a
\* full batch only; after the send of the last, shorter batch it still
\* holds that batch when the function returns.
C27_SyncSendsAllLastKept ==
    \A p \in Procs :
        req[p].kind = "sync" =>
            /\ (req[p].pc = "done" /\ req[p].result = "ok") => SentAll(req[p])
            /\ (req[p].sent # <<>> /\ req[p].pc \in {"sm_advance", "sm_flush", "done"}
                    /\ req[p].cur = Len(Flatten(req[p].sent))) =>
                   \/ req[p].queue = <<>>
                   \/ /\ req[p].pc = "done"
                      /\ Len(req[p].queue) < 32
                      /\ req[p].queue = req[p].sent[Len(req[p].sent)]

\* A collection sent as two batches of 32 and a shorter third.
C27_Witness ==
    \E p \in Procs :
        /\ req[p].kind = "sync" /\ req[p].pc = "done" /\ req[p].result = "ok"
        /\ Len(req[p].sent) = 3
        /\ Len(req[p].sent[3]) < 32

====
